---- MODULE Spec2Model ----
(***************************************************************************)
(* Dragit /transfer/1.1: one payload sent by host A (TransferOut) to host  *)
(* B (TransferPayload) over one substream, the command channel of B's UI,  *)
(* and the verification of the received file by B's swarm.                 *)
(*                                                                         *)
(* The substream is a reliable ordered byte stream in the direction A->B   *)
(* (metadata record, then payload bytes, then close) and carries one       *)
(* Answer in the direction B->A.  The remote peer and the network are not  *)
(* trusted: bytes in flight can be flipped, added or removed (scenario S3  *)
(* of the specification).                                                  *)
(*                                                                         *)
(* Further specifications over the same variables, each with the others    *)
(* at rest: SpecQueue (the payload queue of TransferBehaviour), SpecWait   *)
(* (inbound upgrades sharing the command receiver), SpecDriver (the poll   *)
(* function of execute_swarm), SpecName (the name and size lines of a      *)
(* received file), SpecFault (the transfer on a substream that can fail),  *)
(* SpecS1 (the transfer of scenario S1), SpecChan (the bounded channels    *)
(* between the UI and the network task), SpecDisc (DiscoveryBehaviour),   *)
(* SpecInbound (TransferBehaviour with inbound transfers reported),        *)
(* SpecMdns (DiscoveryBehaviour under mDNS events alone), SpecLife (peers  *)
(* connecting and disconnecting) and SpecExchange (connections and remote  *)
(* records on a table mDNS has filled).                                    *)
(***************************************************************************)
EXTENDS Integers, Sequences, FiniteSets, TLC

\* ---------------------------------------------------------------- bounds
\* longest file sent
MaxLen == 2
\* util::CHUNK_SIZE (4096 in the program), scaled down
CHUNK_SIZE == 1
\* the receiver hands its buffer to the writer job at CHUNK_SIZE * 8 bytes;
\* the factor is scaled down with CHUNK_SIZE
FLUSH_CHUNKS == 2
\* answers to earlier prompts still in the command channel when the
\* transfer starts
MaxStale == 1
\* interferences with the bytes in flight
MaxTamper == 1

\* two byte values tell any change of a byte apart
Byte == {0, 1}

RECURSIVE SeqsUpTo(_)
SeqsUpTo(n) ==
    IF n = 0 THEN {<<>>}
    ELSE LET S == SeqsUpTo(n - 1)
         IN  S \cup {Append(s, b) : s \in {t \in S : Len(t) = n - 1}, b \in Byte}

Files == SeqsUpTo(MaxLen)
Names == {"hello.txt"}

Min(a, b) == IF a < b THEN a ELSE b

\* ------------------------------------------------------------ pure parts
\* SHA-1 of a byte sequence: a function of the contents only, free of
\* collisions on the bounded inputs (the digits of the sequence behind a
\* leading 1).
RECURSIVE hash_contents(_)
hash_contents(contents) ==
    IF contents = <<>> THEN 1
    ELSE hash_contents(SubSeq(contents, 1, Len(contents) - 1)) * Cardinality(Byte)
         + contents[Len(contents)]

\* a hash that belongs to no payload of this transfer (an earlier prompt)
StaleHash == hash_contents(<<>>) - 1

\* PeerEvent values
FileIncoming(n, h, s) == [type |-> "FileIncoming", name |-> n, hash |-> h, size |-> s]
TransferProgress(d, t, dir) ==
    [type |-> "TransferProgress", done |-> d, total |-> t, direction |-> dir]
TransferCompleted == [type |-> "TransferCompleted"]
FileCorrect(n) == [type |-> "FileCorrect", name |-> n]
FileIncorrect == [type |-> "FileIncorrect"]
WaitingForAnswer == [type |-> "WaitingForAnswer"]
TransferRejected == [type |-> "TransferRejected"]

\* TransferCommand values
Accept(h) == [kind |-> "Accept", hash |-> h]
Deny(h) == [kind |-> "Deny", hash |-> h]
NoCommand == [kind |-> "None", hash |-> StaleHash]

\* what the command channel can hold before the transfer starts: the
\* answers to prompts of earlier transfers, whose hash is not this one's
RECURSIVE StaleCommands(_)
StaleCommands(n) ==
    IF n = 0 THEN {<<>>}
    ELSE LET S == StaleCommands(n - 1)
         IN  S \cup {Append(q, c) : q \in {t \in S : Len(t) = n - 1},
                                    c \in {Accept(StaleHash), Deny(StaleHash)}}

NoMeta == [name |-> "", hash |-> StaleHash, size |-> 0, present |-> FALSE]
Metadata(n, h, s) == [name |-> n, hash |-> h, size |-> s, present |-> TRUE]

\* util::notify_progress: one TransferProgress event on the UI channel
notify_progress(queue, counter, total, direction) ==
    Append(queue, TransferProgress(counter, total, direction))

\* util::notify_completed
notify_completed(queue) == Append(queue, TransferCompleted)

\* util::time_to_notify(current_size, total): a threshold on the bytes not
\* yet reported; the threshold is not fixed by the sources, so both answers
\* are possible once some bytes are unreported.
time_to_notify(current_size, total) ==
    IF current_size > 0 THEN {TRUE, FALSE} ELSE {FALSE}

VARIABLES
    \* ---- host A, TransferOut::write_socket
    srcName,        \* TransferOut.name
    srcFile,        \* contents of the file at TransferOut.path
    spc,            \* position in write_socket
    accepted,       \* result of Answer::read: "unread", "true", "false"
    offset,         \* bytes of the file handed over by the reader job
    scounter,       \* counter
    scurrent,       \* current_size
    uiA,            \* PeerEvents sent to A's UI, in order
    \* ---- the substream
    metaWire,       \* metadata record A -> B
    ansWire,        \* Answer B -> A: "none", "true", "false"
    wire,           \* payload bytes in flight A -> B
    wireClosed,     \* A closed its writing half
    tampered,       \* interferences so far
    \* ---- host B, TransferPayload::read_socket
    rpc,            \* position in read_socket / read_file_payload
    meta,           \* Metadata read from the socket
    choice,         \* command returned by block_for_answer
    rerr,           \* ErrorKind of the Err result, "none" otherwise
    payloads,       \* payloads buffer of read_file_payload
    counter,        \* counter
    current_size,   \* current_size
    rchan,          \* sync_channel to the file writer job
    sockRead,       \* bytes reader.read has returned to read_file_payload
    jobDone,        \* the writer job has returned
    created,        \* the target file exists on B's disk
    disk,           \* contents of the target file
    self,           \* fields of the TransferPayload set on success
    uiB,            \* PeerEvents sent to B's UI, in order
    \* ---- B's TransferBehaviour and swarm
    events,         \* TransferBehaviour.events
    injected,       \* the upgrade result was given to inject_event
    \* ---- B's UI -> network command channel
    commands,       \* TransferCommands in the channel
    answered        \* the accept dialog of this transfer was answered

VARIABLES
    \* ---- TransferBehaviour of the sending host
    peers,              \* TransferBehaviour.peers
    connected_peers,    \* TransferBehaviour.connected_peers
    queued_payloads,    \* TransferBehaviour.payloads: Vec<FileToSend>
    pushed,             \* calls of push_file so far
    dispatched,         \* NotifyHandler actions returned by poll, in order
    outstanding,        \* outbound transfers handed to a peer's handler and
                        \* not yet reported Sent, per peer
    dials,              \* peers of the DialPeer actions returned by poll
    generated,          \* payloads of the GenerateEvent actions returned by poll
    \* ---- inbound transfers waiting in block_for_answer
    wpc,                \* position of each inbound upgrade
    lockHolder,         \* holder of the Mutex around the command Receiver
    cmdClosed,          \* every Sender of the command channel was dropped
    taken,              \* command returned by block_for_answer, per upgrade
    timerExpired,       \* the substream timeout of the upgrade has elapsed
    sawClosed,          \* the upgrade polled the closed, empty channel
    uiAnswered,         \* FileIncoming prompts answered by the UI
    \* ---- execute_swarm, the task driving the swarm
    fileChan,           \* FileToSend values in the UI -> network channel
    fileClosed,         \* every Sender of that channel was dropped
    dpc,                \* position of the task's poll function
    noneSeen,           \* times the drain loop got Ready(None)
    sentFiles,          \* files sent by the UI so far
    \* ---- the receiver's target path
    rawName,            \* the name line read from the socket
    rawSize,            \* the size line read from the socket
    usedName,           \* the name given to get_target_path
    targetPath,         \* components of the path of the created file
    npc,                \* position in the name handling of read_socket
    \* ---- faults of the substream
    echoCorrupt,        \* the hash echoed in the Answer in flight is not the
                        \* hash of the metadata
    \* ---- bounded channels between the UI and the network task
    evChan,             \* PeerEvents in the network -> UI channel
    cmdChan,            \* TransferCommands in the UI -> network channel
    sendChan,           \* FileToSend values in the UI -> network channel
    lost,               \* kinds of values a failed try_send has dropped
                        \* with nothing reported to the UI
    uiCrashed,          \* a handler of the UI has panicked
    \* ---- DiscoveryBehaviour
    peer_table,         \* DiscoveryBehaviour.peers
    disc_events,        \* DiscoveryBehaviour.events
    peersChan,          \* PeersUpdated snapshots in the channel to the UI
    lastAddr,           \* address of the latest report about each peer
    exchanges,          \* peers whose handler was given the local record and
                        \* has not reported Sent
    lastSent,           \* the peer whose handler reported Sent in the last
                        \* step of the behaviour, "" after any other step
    live,               \* peers with an established connection
    gone,               \* peers reported disconnected and not seen since
    \* ---- the connection of each waiting inbound upgrade
    served              \* steps of the other substreams of the connection
                        \* its task has taken

queueVars == <<peers, connected_peers, queued_payloads, pushed, dispatched,
               outstanding, dials, generated>>
waitVars == <<wpc, lockHolder, cmdClosed, taken, timerExpired, sawClosed, uiAnswered>>
driverVars == <<fileChan, fileClosed, dpc, noneSeen, sentFiles>>
nameVars == <<rawName, rawSize, usedName, targetPath, npc>>
faultVars == <<echoCorrupt>>
chanVars == <<evChan, cmdChan, sendChan, lost, uiCrashed>>
discVars == <<peer_table, disc_events, peersChan, lastAddr, exchanges, lastSent,
              live, gone>>
connVars == <<served>>
moreVars == <<faultVars, chanVars, discVars, connVars>>
extVars == <<queueVars, waitVars, driverVars, nameVars, moreVars>>

senderVars == <<srcName, srcFile, spc, accepted, offset, scounter, scurrent, uiA>>
wireVars == <<metaWire, ansWire, wire, wireClosed, tampered>>
readVars == <<payloads, counter, current_size, rchan, sockRead>>
fileVars == <<jobDone, created, disk>>
recvVars == <<rpc, meta, choice, rerr, self, uiB>>
behVars == <<events, injected>>
cmdVars == <<commands, answered>>
transferVars == <<senderVars, wireVars, readVars, fileVars, recvVars, behVars, cmdVars>>
vars == <<transferVars, extVars>>

NoSelf == [name |-> "", hash |-> StaleHash, size_bytes |-> 0]

\* one transfer about to start: both upgrades created, nothing written yet
\* both upgrades at their start, nothing on the substream
TransferStart ==
    /\ srcName \in Names
    /\ spc = "write_meta"
    /\ accepted = "unread"
    /\ offset = 0
    /\ scounter = 0
    /\ scurrent = 0
    /\ uiA = <<>>
    /\ metaWire = NoMeta
    /\ ansWire = "none"
    /\ wire = <<>>
    /\ wireClosed = FALSE
    /\ tampered = 0
    /\ rpc = "read_meta"
    /\ meta = NoMeta
    /\ choice = NoCommand
    /\ rerr = "none"
    /\ payloads = <<>>
    /\ counter = 0
    /\ current_size = 0
    /\ rchan = <<>>
    /\ sockRead = <<>>
    /\ jobDone = FALSE
    /\ created = FALSE
    /\ disk = <<>>
    /\ self = NoSelf
    /\ uiB = <<>>
    /\ events = <<>>
    /\ injected = FALSE
    /\ answered = FALSE

TransferInit ==
    /\ TransferStart
    /\ srcFile \in Files
    /\ commands \in StaleCommands(MaxStale)

\* the transfer above with an empty file and an empty command channel
TransferParked ==
    /\ TransferInit
    /\ srcFile = <<>>
    /\ commands = <<>>

\* peers on the local network
Peers == {"p1", "p2"}
\* inbound upgrades running at the same time, and the metadata each has read:
\* two files of one byte with different contents
Waiters == {1, 2}
WaiterMeta(t) == Metadata("hello.txt", hash_contents(<<t - 1>>), 1)

\* TransferBehaviour::new(): empty sets and vectors
QueueInit ==
    /\ peers = {}
    /\ connected_peers = {}
    /\ queued_payloads = <<>>
    /\ pushed = 0
    /\ dispatched = <<>>
    /\ outstanding = [p \in Peers |-> 0]
    /\ dials = {}
    /\ generated = <<>>

\* no inbound upgrade has read its metadata yet; the UI holds its Sender
WaitInit ==
    /\ wpc = [t \in Waiters |-> "read_meta"]
    /\ lockHolder = 0
    /\ cmdClosed = FALSE
    /\ taken = [t \in Waiters |-> NoCommand]
    /\ timerExpired = [t \in Waiters |-> FALSE]
    /\ sawClosed = [t \in Waiters |-> FALSE]
    /\ uiAnswered = 0

\* execute_swarm entering its poll function for the first time
DriverInit ==
    /\ fileChan = <<>>
    /\ fileClosed = FALSE
    /\ dpc = "drain"
    /\ noneSeen = 0
    /\ sentFiles = 0

\* no name line read
NameParked ==
    /\ rawName = <<>>
    /\ rawSize = <<>>
    /\ usedName = <<>>
    /\ targetPath = <<>>
    /\ npc = "idle"

\* an entry of the peer table that is absent
NoPeer == [present |-> FALSE, address |-> "", hostname |-> "", os |-> "Unknown"]

\* an intact substream, channels with room, DiscoveryBehaviour::new()
MoreParked ==
    /\ echoCorrupt = FALSE
    /\ evChan = <<>>
    /\ cmdChan = <<>>
    /\ sendChan = <<>>
    /\ lost = {}
    /\ uiCrashed = FALSE
    /\ peer_table = [p \in Peers |-> NoPeer]
    /\ disc_events = <<>>
    /\ peersChan = <<>>
    /\ lastAddr = [p \in Peers |-> ""]
    /\ exchanges = {}
    /\ lastSent = ""
    /\ live = {}
    /\ gone = {}
    /\ served = [t \in Waiters |-> 0]

Init ==
    /\ TransferInit
    /\ QueueInit
    /\ WaitInit
    /\ DriverInit
    /\ NameParked
    /\ MoreParked

\* ================================================================ host A
\* Metadata::write(name, path, socket): hash and size of the file, written
\* as one record; returns the size.
MetadataWrite ==
    /\ spc = "write_meta"
    /\ metaWire' = Metadata(srcName, hash_contents(srcFile), Len(srcFile))
    /\ spc' = "read_answer"
    /\ UNCHANGED <<srcName, srcFile, accepted, offset, scounter, scurrent, uiA>>
    /\ UNCHANGED <<ansWire, wire, wireClosed, tampered>>
    /\ UNCHANGED <<readVars, fileVars, recvVars, behVars, cmdVars>>
    /\ UNCHANGED extVars

\* write_socket streaming whatever the Answer says
AnswerRead_ignored ==
    /\ spc = "read_answer"
    /\ ansWire # "none"
    /\ accepted' = ansWire
    /\ uiA' = notify_progress(uiA, 0, Len(srcFile), "Outgoing")
    /\ spc' = "stream"
    /\ UNCHANGED <<srcName, srcFile, offset, scounter, scurrent>>
    /\ UNCHANGED <<wireVars, readVars, fileVars, recvVars, behVars, cmdVars>>
    /\ UNCHANGED extVars

\* Answer::read, then the branch on accepted: on true the reader job is
\* spawned and TransferProgress(0, size) is sent; on false write_socket
\* returns Ok(()) at once.
AnswerRead ==
    /\ spc = "read_answer"
    /\ ansWire # "none"
    /\ accepted' = ansWire
    /\ IF ansWire = "true"
       THEN /\ uiA' = notify_progress(uiA, 0, Len(srcFile), "Outgoing")
            /\ spc' = "stream"
       ELSE /\ uiA' = uiA
            /\ spc' = "ok"
    /\ UNCHANGED <<srcName, srcFile, offset, scounter, scurrent>>
    /\ UNCHANGED <<wireVars, readVars, fileVars, recvVars, behVars, cmdVars>>
    /\ UNCHANGED extVars

\* one turn of the loop of write_socket: the next buffer of the reader job
\* is written to the socket, or its empty terminator ends the loop.
SendChunk ==
    /\ spc = "stream"
    /\ IF offset < Len(srcFile)
       THEN \E n \in 1..Min(CHUNK_SIZE, Len(srcFile) - offset) :
              \E notify \in time_to_notify(scurrent + n, Len(srcFile)) :
                /\ wire' = wire \o SubSeq(srcFile, offset + 1, offset + n)
                /\ offset' = offset + n
                /\ scounter' = scounter + n
                /\ IF notify
                   THEN /\ uiA' = notify_progress(uiA, scounter + n, Len(srcFile), "Outgoing")
                        /\ scurrent' = 0
                   ELSE /\ uiA' = uiA
                        /\ scurrent' = scurrent + n
                /\ spc' = spc
       ELSE /\ uiA' = notify_progress(uiA, scounter, Len(srcFile), "Outgoing")
            /\ spc' = "close"
            /\ UNCHANGED <<wire, offset, scounter, scurrent>>
    /\ UNCHANGED <<srcName, srcFile, accepted>>
    /\ UNCHANGED <<metaWire, ansWire, wireClosed, tampered>>
    /\ UNCHANGED <<readVars, fileVars, recvVars, behVars, cmdVars>>
    /\ UNCHANGED extVars

\* SenderClose with the completion reported and the writer left open
SenderClose_unclosed ==
    /\ spc = "close"
    /\ wireClosed' = wireClosed
    /\ uiA' = notify_completed(uiA)
    /\ spc' = "ok"
    /\ UNCHANGED <<srcName, srcFile, accepted, offset, scounter, scurrent>>
    /\ UNCHANGED <<metaWire, ansWire, wire, tampered>>
    /\ UNCHANGED <<readVars, fileVars, recvVars, behVars, cmdVars>>
    /\ UNCHANGED extVars

\* after the loop: job.join, writer.close, notify_completed, Ok(())
SenderClose ==
    /\ spc = "close"
    /\ wireClosed' = TRUE
    /\ uiA' = notify_completed(uiA)
    /\ spc' = "ok"
    /\ UNCHANGED <<srcName, srcFile, accepted, offset, scounter, scurrent>>
    /\ UNCHANGED <<metaWire, ansWire, wire, tampered>>
    /\ UNCHANGED <<readVars, fileVars, recvVars, behVars, cmdVars>>
    /\ UNCHANGED extVars

\* ================================================================ host B
\* read_socket reporting the start of the transfer before the prompt
MetadataRead_progress_first ==
    /\ rpc = "read_meta"
    /\ metaWire.present
    /\ meta' = metaWire
    /\ uiB' = Append(notify_progress(uiB, 0, metaWire.size, "Incoming"),
                     FileIncoming(metaWire.name, metaWire.hash, metaWire.size))
    /\ rpc' = "wait_command"
    /\ UNCHANGED <<choice, rerr, self>>
    /\ UNCHANGED <<senderVars, wireVars, readVars, fileVars, behVars, cmdVars>>
    /\ UNCHANGED extVars

\* read_socket up to block_for_answer: Metadata::read, then FileIncoming is
\* sent to the UI.
MetadataRead ==
    /\ rpc = "read_meta"
    /\ metaWire.present
    /\ meta' = metaWire
    /\ uiB' = Append(uiB, FileIncoming(metaWire.name, metaWire.hash, metaWire.size))
    /\ rpc' = "wait_command"
    /\ UNCHANGED <<choice, rerr, self>>
    /\ UNCHANGED <<senderVars, wireVars, readVars, fileVars, behVars, cmdVars>>
    /\ UNCHANGED extVars

\* the guard of the first match arm: Accept(hash) if hash == meta.hash
AcceptMatches_any(command, m) == command.kind = "Accept"
AcceptMatches(command, m) == command.kind = "Accept" /\ command.hash = m.hash

\* the accept arm without its Answer::write
RecvAccept_no_answer ==
    /\ rpc = "wait_command"
    /\ commands # <<>>
    /\ AcceptMatches(Head(commands), meta)
    /\ choice' = Head(commands)
    /\ commands' = Tail(commands)
    /\ uiB' = notify_progress(uiB, 0, meta.size, "Incoming")
    /\ rpc' = "payload"
    /\ UNCHANGED <<meta, rerr, self, answered>>
    /\ UNCHANGED <<metaWire, ansWire, wire, wireClosed, tampered>>
    /\ UNCHANGED <<senderVars, readVars, fileVars, behVars>>
    /\ UNCHANGED extVars

\* block_for_answer returned Accept with the hash of the metadata:
\* Answer::write(true), then TransferProgress(0, size, Incoming)
RecvAccept ==
    /\ rpc = "wait_command"
    /\ commands # <<>>
    /\ AcceptMatches(Head(commands), meta)
    /\ choice' = Head(commands)
    /\ commands' = Tail(commands)
    /\ ansWire' = "true"
    /\ uiB' = notify_progress(uiB, 0, meta.size, "Incoming")
    /\ rpc' = "payload"
    /\ UNCHANGED <<meta, rerr, self, answered>>
    /\ UNCHANGED <<metaWire, wire, wireClosed, tampered>>
    /\ UNCHANGED <<senderVars, readVars, fileVars, behVars>>
    /\ UNCHANGED extVars

\* block_for_answer returned Accept with another hash: Answer::write(false),
\* Err(PermissionDenied, "Hash does not match")
RecvAcceptMismatch ==
    /\ rpc = "wait_command"
    /\ commands # <<>>
    /\ Head(commands).kind = "Accept"
    /\ ~AcceptMatches(Head(commands), meta)
    /\ choice' = Head(commands)
    /\ commands' = Tail(commands)
    /\ ansWire' = "false"
    /\ rerr' = "PermissionDenied"
    /\ rpc' = "err"
    /\ UNCHANGED <<meta, self, uiB, answered>>
    /\ UNCHANGED <<metaWire, wire, wireClosed, tampered>>
    /\ UNCHANGED <<senderVars, readVars, fileVars, behVars>>
    /\ UNCHANGED extVars

\* the deny arm answering with the wrong flag and going on to the payload
RecvDeny_accepts ==
    /\ rpc = "wait_command"
    /\ commands # <<>>
    /\ Head(commands).kind = "Deny"
    /\ choice' = Head(commands)
    /\ commands' = Tail(commands)
    /\ ansWire' = "true"
    /\ rpc' = "payload"
    /\ UNCHANGED <<meta, rerr, self, uiB, answered>>
    /\ UNCHANGED <<metaWire, wire, wireClosed, tampered>>
    /\ UNCHANGED <<senderVars, readVars, fileVars, behVars>>
    /\ UNCHANGED extVars

\* block_for_answer returned Deny: Answer::write(false),
\* Err(PermissionDenied, "Rejected")
RecvDeny ==
    /\ rpc = "wait_command"
    /\ commands # <<>>
    /\ Head(commands).kind = "Deny"
    /\ choice' = Head(commands)
    /\ commands' = Tail(commands)
    /\ ansWire' = "false"
    /\ rerr' = "PermissionDenied"
    /\ rpc' = "err"
    /\ UNCHANGED <<meta, self, uiB, answered>>
    /\ UNCHANGED <<metaWire, wire, wireClosed, tampered>>
    /\ UNCHANGED <<senderVars, readVars, fileVars, behVars>>
    /\ UNCHANGED extVars

\* head of read_file_payload: the channel and the writer job are set up and
\* the job creates the target file.
ReadFilePayloadStart ==
    /\ rpc = "payload"
    /\ payloads' = <<>>
    /\ counter' = 0
    /\ current_size' = 0
    /\ rchan' = <<>>
    /\ sockRead' = <<>>
    /\ created' = TRUE
    /\ disk' = <<>>
    /\ jobDone' = FALSE
    /\ rpc' = "stream"
    /\ UNCHANGED <<meta, choice, rerr, self, uiB>>
    /\ UNCHANGED <<senderVars, wireVars, behVars, cmdVars>>
    /\ UNCHANGED extVars

\* ReadChunk with the payloads buffer kept after it was handed to the job
ReadChunk_keeps_payloads ==
    /\ rpc = "stream"
    /\ \/ /\ wire # <<>>
          /\ \E n \in 1..Min(CHUNK_SIZE, Len(wire)) :
               LET buffered == payloads \o SubSeq(wire, 1, n)
                   flush == Len(buffered) >= CHUNK_SIZE * FLUSH_CHUNKS
               IN  /\ wire' = SubSeq(wire, n + 1, Len(wire))
                   /\ sockRead' = sockRead \o SubSeq(wire, 1, n)
                   /\ counter' = counter + n
                   /\ IF flush
                      THEN /\ rchan' = Append(rchan, buffered)
                           /\ payloads' = buffered
                           /\ \E notify \in time_to_notify(current_size + n, meta.size) :
                                IF notify
                                THEN /\ uiB' = notify_progress(uiB, counter + n, meta.size, "Incoming")
                                     /\ current_size' = 0
                                ELSE /\ uiB' = uiB
                                     /\ current_size' = current_size + n
                      ELSE /\ rchan' = rchan
                           /\ payloads' = buffered
                           /\ uiB' = uiB
                           /\ current_size' = current_size + n
                   /\ rpc' = rpc
       \/ /\ wire = <<>>
          /\ wireClosed
          /\ rchan' = rchan \o <<payloads, <<>> >>
          /\ uiB' = notify_progress(uiB, counter, meta.size, "Incoming")
          /\ rpc' = "join"
          /\ UNCHANGED <<wire, payloads, counter, current_size, sockRead>>
    /\ UNCHANGED <<meta, choice, rerr, self>>
    /\ UNCHANGED <<metaWire, ansWire, wireClosed, tampered>>
    /\ UNCHANGED <<senderVars, fileVars, behVars, cmdVars>>
    /\ UNCHANGED extVars

\* one turn of the loop of read_file_payload: reader.read gives n > 0 bytes
\* or, at the end of the stream, 0.
ReadChunk ==
    /\ rpc = "stream"
    /\ \/ /\ wire # <<>>
          /\ \E n \in 1..Min(CHUNK_SIZE, Len(wire)) :
               LET buffered == payloads \o SubSeq(wire, 1, n)
                   flush == Len(buffered) >= CHUNK_SIZE * FLUSH_CHUNKS
               IN  /\ wire' = SubSeq(wire, n + 1, Len(wire))
                   /\ sockRead' = sockRead \o SubSeq(wire, 1, n)
                   /\ counter' = counter + n
                   /\ IF flush
                      THEN /\ rchan' = Append(rchan, buffered)
                           /\ payloads' = <<>>
                           /\ \E notify \in time_to_notify(current_size + n, meta.size) :
                                IF notify
                                THEN /\ uiB' = notify_progress(uiB, counter + n, meta.size, "Incoming")
                                     /\ current_size' = 0
                                ELSE /\ uiB' = uiB
                                     /\ current_size' = current_size + n
                      ELSE /\ rchan' = rchan
                           /\ payloads' = buffered
                           /\ uiB' = uiB
                           /\ current_size' = current_size + n
                   /\ rpc' = rpc
       \/ /\ wire = <<>>
          /\ wireClosed
          /\ rchan' = rchan \o <<payloads, <<>> >>
          /\ uiB' = notify_progress(uiB, counter, meta.size, "Incoming")
          /\ rpc' = "join"
          /\ UNCHANGED <<wire, payloads, counter, current_size, sockRead>>
    /\ UNCHANGED <<meta, choice, rerr, self>>
    /\ UNCHANGED <<metaWire, ansWire, wireClosed, tampered>>
    /\ UNCHANGED <<senderVars, fileVars, behVars, cmdVars>>
    /\ UNCHANGED extVars

\* the writer job: takes the next buffer of the channel and appends it to
\* the file; an empty buffer ends the job.
WriteFileJob ==
    /\ created
    /\ ~jobDone
    /\ rchan # <<>>
    /\ rchan' = Tail(rchan)
    /\ IF Head(rchan) = <<>>
       THEN /\ jobDone' = TRUE
            /\ disk' = disk
       ELSE /\ jobDone' = FALSE
            /\ disk' = disk \o Head(rchan)
    /\ UNCHANGED <<created, payloads, counter, current_size, sockRead>>
    /\ UNCHANGED <<senderVars, wireVars, recvVars, behVars, cmdVars>>
    /\ UNCHANGED extVars

\* tail of read_file_payload and of the accept arm: job.join, then the
\* fields of the payload are set and read_socket returns Ok(()).
JoinJob ==
    /\ rpc = "join"
    /\ jobDone
    /\ self' = [name |-> meta.name, hash |-> meta.hash, size_bytes |-> counter]
    /\ rpc' = "ok"
    /\ UNCHANGED <<meta, choice, rerr, uiB>>
    /\ UNCHANGED <<senderVars, wireVars, readVars, fileVars, behVars, cmdVars>>
    /\ UNCHANGED extVars

\* ============================================== B's behaviour and swarm
\* TransferBehaviour::inject_event(ProtocolEvent::Received(data)): only an
\* upgrade that returned Ok reaches the behaviour.
InjectEventReceived ==
    /\ rpc = "ok"
    /\ ~injected
    /\ injected' = TRUE
    /\ events' = Append(events, self)
    /\ UNCHANGED <<senderVars, wireVars, readVars, fileVars, recvVars, cmdVars>>
    /\ UNCHANGED extVars

\* TransferPayload::check_file: the hash of the file on disk against the
\* hash of the metadata
check_file_always_ok(payload) == TRUE
check_file(payload) == created /\ hash_contents(disk) = payload.hash

\* TransferBehaviour::poll pops the last event and generates it;
\* MyBehaviour::inject_event checks the file and tells the UI.
PollGenerateEvent ==
    /\ events # <<>>
    /\ LET tp == events[Len(events)]
       IN  /\ events' = SubSeq(events, 1, Len(events) - 1)
           /\ IF check_file(tp)
              THEN uiB' = Append(uiB, FileCorrect(tp.name))
              ELSE uiB' = Append(uiB, FileIncorrect)
    /\ UNCHANGED <<rpc, meta, choice, rerr, self, injected>>
    /\ UNCHANGED <<senderVars, wireVars, readVars, fileVars, cmdVars>>
    /\ UNCHANGED extVars

\* ================================================================ B's UI
\* the handler of FileIncoming(name, hash, size): the accept dialog is run
\* and Accept(hash) or Deny(hash) is sent on the command channel.
UiCommand ==
    /\ ~answered
    /\ \E i \in 1..Len(uiB) :
         /\ uiB[i].type = "FileIncoming"
         /\ \E c \in {Accept(uiB[i].hash), Deny(uiB[i].hash)} :
              commands' = Append(commands, c)
    /\ answered' = TRUE
    /\ UNCHANGED <<senderVars, wireVars, readVars, fileVars, recvVars, behVars>>
    /\ UNCHANGED extVars

\* ====================================================== the remote side
\* a byte in flight is changed
FlipByte ==
    /\ tampered < MaxTamper
    /\ \E i \in 1..Len(wire) :
         \E b \in Byte \ {wire[i]} :
           wire' = [wire EXCEPT ![i] = b]
    /\ tampered' = tampered + 1
    /\ UNCHANGED <<metaWire, ansWire, wireClosed>>
    /\ UNCHANGED <<senderVars, readVars, fileVars, recvVars, behVars, cmdVars>>
    /\ UNCHANGED extVars

\* the peer sends a byte more than the size it announced
ExtraByte ==
    /\ tampered < MaxTamper
    /\ accepted = "true"
    /\ ~wireClosed
    /\ \E b \in Byte : wire' = Append(wire, b)
    /\ tampered' = tampered + 1
    /\ UNCHANGED <<metaWire, ansWire, wireClosed>>
    /\ UNCHANGED <<senderVars, readVars, fileVars, recvVars, behVars, cmdVars>>
    /\ UNCHANGED extVars

\* the peer sends a byte less than the size it announced
DropByte ==
    /\ tampered < MaxTamper
    /\ wire # <<>>
    /\ wire' = SubSeq(wire, 1, Len(wire) - 1)
    /\ tampered' = tampered + 1
    /\ UNCHANGED <<metaWire, ansWire, wireClosed>>
    /\ UNCHANGED <<senderVars, readVars, fileVars, recvVars, behVars, cmdVars>>
    /\ UNCHANGED extVars

Next ==
    \/ MetadataWrite
    \/ AnswerRead
    \/ SendChunk
    \/ SenderClose
    \/ MetadataRead
    \/ RecvAccept
    \/ RecvAcceptMismatch
    \/ RecvDeny
    \/ ReadFilePayloadStart
    \/ ReadChunk
    \/ WriteFileJob
    \/ JoinJob
    \/ InjectEventReceived
    \/ PollGenerateEvent
    \/ UiCommand
    \/ FlipByte
    \/ ExtraByte
    \/ DropByte

Spec == Init /\ [][Next]_vars

\* a step of the transfer code of either host
TransferStep ==
    \/ MetadataWrite \/ AnswerRead \/ SendChunk \/ SenderClose
    \/ MetadataRead \/ RecvAccept \/ RecvAcceptMismatch \/ RecvDeny
    \/ ReadFilePayloadStart \/ ReadChunk \/ WriteFileJob \/ JoinJob
    \/ InjectEventReceived \/ PollGenerateEvent

\* the executors keep polling: while some task of the transfer can take a
\* step, one is taken.  The UI and the remote interference are under no
\* obligation.
Fairness == WF_vars(TransferStep)

FairSpec == Spec /\ Fairness

\* ======================================= TransferBehaviour, sending side
\* ------------------------------------------------------------ bounds
\* files dropped on the window
MaxPush == 2

\* FileToSend { name, path, peer }; the name stands for the path as well
FileToSend(n, p) == [name |-> n, peer |-> p]

\* inbound transfers that end with their payload handed to the behaviour
MaxReceived == 1

\* the TransferPayload of the n-th inbound transfer handed over by a handler
ReceivedPayload(n) ==
    [name |-> n, path |-> n, hash |-> hash_contents(<<>>), size_bytes |-> 0]

\* Vec::pop: the element returned and the vector left
Last(v) == v[Len(v)]
Pop_keeps(v) == v
Pop(v) == SubSeq(v, 1, Len(v) - 1)

\* what the actions of the behaviour leave alone
queueFrame == <<senderVars, wireVars, readVars, fileVars, recvVars, injected,
                cmdVars, waitVars, driverVars, nameVars, moreVars>>

\* TransferBehaviour::push_file: self.payloads.push(file)
push_file(q, file) == Append(q, file)

\* execute_swarm hands a FileToSend of the UI to push_file
PushFile ==
    /\ pushed < MaxPush
    /\ \E p \in Peers :
         queued_payloads' = push_file(queued_payloads, FileToSend(pushed + 1, p))
    /\ pushed' = pushed + 1
    /\ UNCHANGED <<peers, connected_peers, dispatched, outstanding, dials,
                   generated>>
    /\ UNCHANGED <<events, queueFrame>>

\* add_peer, called for every peer of MdnsEvent::Discovered
AddPeer ==
    /\ \E p \in Peers \ peers : peers' = peers \cup {p}
    /\ UNCHANGED <<connected_peers, queued_payloads, pushed, dispatched,
                   outstanding, dials, generated>>
    /\ UNCHANGED <<events, queueFrame>>

\* inject_connected
InjectConnected ==
    /\ \E p \in Peers \ connected_peers : connected_peers' = connected_peers \cup {p}
    /\ UNCHANGED <<peers, queued_payloads, pushed, dispatched, outstanding,
                   dials, generated>>
    /\ UNCHANGED <<events, queueFrame>>

\* inject_dial_failure, for a peer that was dialed
InjectDialFailure ==
    /\ \E p \in dials : connected_peers' = connected_peers \ {p}
    /\ UNCHANGED <<peers, queued_payloads, pushed, dispatched, outstanding,
                   dials, generated>>
    /\ UNCHANGED <<events, queueFrame>>

\* inject_disconnected: the peer leaves both sets; its handler goes with
\* the connection, and the transfers it was running with it
InjectDisconnected ==
    /\ \E p \in connected_peers :
         /\ connected_peers' = connected_peers \ {p}
         /\ peers' = peers \ {p}
         /\ outstanding' = [outstanding EXCEPT ![p] = 0]
    /\ UNCHANGED <<queued_payloads, pushed, dispatched, dials, generated>>
    /\ UNCHANGED <<events, queueFrame>>

\* inject_event(peer, c, ProtocolEvent::Received(data)): a NotifyHandler
\* action carrying the payload is pushed on events
InjectEventReceivedData ==
    /\ Len(events) + Len(generated) < MaxReceived
    /\ events' = Append(events, ReceivedPayload(Len(events) + Len(generated) + 1))
    /\ UNCHANGED <<peers, connected_peers, queued_payloads, pushed, dispatched,
                   outstanding, dials, generated>>
    /\ UNCHANGED queueFrame

\* inject_event(peer, c, ProtocolEvent::Sent): the handler of the peer has
\* finished an outbound transfer; the behaviour returns at once
InjectEventSent ==
    /\ \E p \in Peers :
         /\ outstanding[p] > 0
         /\ outstanding' = [outstanding EXCEPT ![p] = @ - 1]
    /\ UNCHANGED <<peers, connected_peers, queued_payloads, pushed, dispatched,
                   dials, generated>>
    /\ UNCHANGED <<events, queueFrame>>

\* TransferBehaviour::poll, a call that returns Poll::Ready:
\*   - the last of events, if any, is popped and generated;
\*   - else, with some peer connected, the last of payloads is popped and
\*     given to the handler of connected_peers.iter().nth(0), whichever
\*     peer the iteration of the HashSet yields first;
\*   - else a known peer that is not connected is dialed.
Poll ==
    IF events # <<>>
    THEN /\ generated' = Append(generated, Last(events))
         /\ events' = Pop(events)
         /\ UNCHANGED <<peers, connected_peers, queued_payloads, pushed,
                        dispatched, outstanding, dials>>
         /\ UNCHANGED queueFrame
    ELSE IF connected_peers # {}
    THEN /\ queued_payloads # <<>>
         /\ \E peer \in connected_peers :
              /\ dispatched' = Append(dispatched,
                     [peer_id |-> peer, message |-> Last(queued_payloads)])
              /\ outstanding' = [outstanding EXCEPT ![peer] = @ + 1]
         /\ queued_payloads' = Pop(queued_payloads)
         /\ UNCHANGED <<peers, connected_peers, pushed, dials, generated>>
         /\ UNCHANGED <<events, queueFrame>>
    ELSE /\ \E peer \in peers \ connected_peers : dials' = dials \cup {peer}
         /\ UNCHANGED <<peers, connected_peers, queued_payloads, pushed,
                        dispatched, outstanding, generated>>
         /\ UNCHANGED <<events, queueFrame>>

InitQueue ==
    /\ TransferParked
    /\ QueueInit
    /\ WaitInit
    /\ DriverInit
    /\ NameParked
    /\ MoreParked

NextQueue ==
    \/ PushFile
    \/ AddPeer
    \/ InjectConnected
    \/ InjectDialFailure
    \/ InjectDisconnected
    \/ InjectEventSent
    \/ Poll

SpecQueue == InitQueue /\ [][NextQueue]_vars

\* the behaviour with inbound transfers: handlers report payloads received
\* and sent while files are pushed and dispatched to connected peers
NextInbound ==
    \/ PushFile
    \/ InjectConnected
    \/ InjectEventReceivedData
    \/ InjectEventSent
    \/ Poll

SpecInbound == InitQueue /\ [][NextInbound]_vars

\* ============================ inbound upgrades waiting for their answer
\* Every TransferPayload holds a clone of one Arc<Mutex<Receiver<..>>>: the
\* inbound upgrades of all connections take their commands from the same
\* channel, and the UI answers its FileIncoming prompts one after another.

\* what the actions of the waiting upgrades leave alone
waitFrame == <<senderVars, wireVars, readVars, fileVars, rpc, meta, choice,
               rerr, self, behVars, answered, queueVars, driverVars, nameVars,
               moreVars>>

\* read_socket up to block_for_answer: Metadata::read, then
\* notify_incoming_file_event sends FileIncoming(name, hash, size)
WaitMetadataRead ==
    /\ \E t \in Waiters :
         /\ wpc[t] = "read_meta"
         /\ uiB' = Append(uiB, FileIncoming(WaiterMeta(t).name, WaiterMeta(t).hash,
                                            WaiterMeta(t).size))
         /\ wpc' = [wpc EXCEPT ![t] = "lock"]
    /\ UNCHANGED <<lockHolder, cmdClosed, taken, timerExpired, sawClosed, uiAnswered>>
    /\ UNCHANGED <<commands, waitFrame>>

\* block_for_answer: receiver.lock().await
WaitLock ==
    /\ lockHolder = 0
    /\ \E t \in Waiters :
         /\ wpc[t] = "lock"
         /\ lockHolder' = t
         /\ wpc' = [wpc EXCEPT ![t] = "blocked"]
    /\ UNCHANGED <<cmdClosed, taken, timerExpired, sawClosed, uiAnswered>>
    /\ UNCHANGED <<commands, uiB, waitFrame>>

\* block_for_answer: poll_next_unpin yields Ready(Some(choice)); the choice
\* is returned, the guard of the Mutex is dropped, and read_socket matches
\* the choice against the metadata of this upgrade
WaitCommand ==
    /\ commands # <<>>
    /\ \E t \in Waiters :
         /\ wpc[t] = "blocked"
         /\ taken' = [taken EXCEPT ![t] = Head(commands)]
         /\ wpc' = [wpc EXCEPT ![t] =
                IF AcceptMatches(Head(commands), WaiterMeta(t))
                THEN "accepted" ELSE "rejected"]
    /\ commands' = Tail(commands)
    /\ lockHolder' = 0
    /\ UNCHANGED <<cmdClosed, timerExpired, sawClosed, uiAnswered>>
    /\ UNCHANGED <<uiB, waitFrame>>

\* block_for_answer: poll_next_unpin yields Ready(None), the channel is
\* closed and empty; "Nothing to handle now" is logged and the closure
\* returns Poll::Pending, so block_on goes on waiting
WaitClosed ==
    /\ commands = <<>>
    /\ cmdClosed
    /\ \E t \in Waiters :
         /\ wpc[t] = "blocked"
         /\ ~sawClosed[t]
         /\ sawClosed' = [sawClosed EXCEPT ![t] = TRUE]
    /\ UNCHANGED <<wpc, lockHolder, cmdClosed, taken, timerExpired, uiAnswered>>
    /\ UNCHANGED <<commands, uiB, waitFrame>>

\* new_handler: the substream timeout of an upgrade still running elapses
WaitTimerExpire ==
    /\ \E t \in Waiters :
         /\ wpc[t] \in {"read_meta", "lock", "blocked"}
         /\ ~timerExpired[t]
         /\ timerExpired' = [timerExpired EXCEPT ![t] = TRUE]
    /\ UNCHANGED <<wpc, lockHolder, cmdClosed, taken, sawClosed, uiAnswered>>
    /\ UNCHANGED <<commands, uiB, waitFrame>>

\* the handler drops an upgrade whose timeout has elapsed the next time it
\* is polled.  An upgrade suspended at an .await has returned to the
\* handler; an upgrade inside task::block_on has not: block_on keeps the
\* thread inside the poll of the upgrade until its future is ready.
WaitTearDown ==
    /\ \E t \in Waiters :
         /\ timerExpired[t]
         /\ wpc[t] \in {"read_meta", "lock"}
         /\ wpc' = [wpc EXCEPT ![t] = "timeout"]
    /\ UNCHANGED <<lockHolder, cmdClosed, taken, timerExpired, sawClosed, uiAnswered>>
    /\ UNCHANGED <<commands, uiB, waitFrame>>

\* the UI handles the next FileIncoming: the dialog is run and
\* Accept(hash) or Deny(hash) of that prompt is sent
UiAnswer ==
    /\ ~cmdClosed
    /\ uiAnswered < Len(uiB)
    /\ \E c \in {Accept(uiB[uiAnswered + 1].hash), Deny(uiB[uiAnswered + 1].hash)} :
         commands' = Append(commands, c)
    /\ uiAnswered' = uiAnswered + 1
    /\ UNCHANGED <<wpc, lockHolder, cmdClosed, taken, timerExpired, sawClosed>>
    /\ UNCHANGED <<uiB, waitFrame>>

\* the window is closed: the Sender of the command channel is dropped
UiDropCommandSender ==
    /\ ~cmdClosed
    /\ cmdClosed' = TRUE
    /\ UNCHANGED <<wpc, lockHolder, taken, timerExpired, sawClosed, uiAnswered>>
    /\ UNCHANGED <<commands, uiB, waitFrame>>

\* steps of the other substreams of a connection its task is followed for
MaxServed == 1

\* the task of the connection of upgrade t polls its handler and a step of
\* another substream of the connection is taken.  While the upgrade is in
\* task::block_on the thread is inside the poll of that upgrade, and the
\* handler of the connection is not polled.
ServeSubstream(t) ==
    /\ wpc[t] # "blocked"
    /\ served[t] < MaxServed
    /\ served' = [served EXCEPT ![t] = served[t] + 1]
    /\ UNCHANGED <<transferVars, queueVars, waitVars, driverVars, nameVars,
                   faultVars, chanVars, discVars>>

InitWait ==
    /\ TransferParked
    /\ QueueInit
    /\ WaitInit
    /\ DriverInit
    /\ NameParked
    /\ MoreParked

NextWait ==
    \/ WaitMetadataRead
    \/ WaitLock
    \/ WaitCommand
    \/ WaitClosed
    \/ WaitTimerExpire
    \/ WaitTearDown
    \/ UiAnswer
    \/ UiDropCommandSender
    \/ \E t \in Waiters : ServeSubstream(t)

SpecWait == InitWait /\ [][NextWait]_vars

\* a step of an inbound upgrade or of its handler
WaitStep ==
    \/ WaitMetadataRead \/ WaitLock \/ WaitCommand \/ WaitClosed
    \/ WaitTimerExpire \/ WaitTearDown

\* the executor keeps polling the connection tasks and time passes; the
\* user is under no obligation to answer
FairSpecWait == SpecWait /\ WF_vars(WaitStep)

\* ========================================== execute_swarm, the network task
\* The poll function given to task::block_on: a loop draining the
\* FileToSend channel into push_file, then a loop polling the swarm, then
\* Poll::Pending.  The swarm is a stream that never ends: its poll never
\* yields Ready(None), so the one return of Poll::Ready, the position
\* "finished" of the task, is behind a branch that is never taken.

\* times the drain loop is followed around on a closed channel
MaxNone == 2

\* what the steps of the task leave alone
driverFrame == <<transferVars, peers, connected_peers, dispatched, outstanding,
                 dials, generated, waitVars, nameVars, moreVars>>

\* a file is dropped on a peer of the window: try_send on the channel
UiSendFile ==
    /\ ~fileClosed
    /\ sentFiles < MaxPush
    /\ \E p \in Peers : fileChan' = Append(fileChan, FileToSend(sentFiles + 1, p))
    /\ sentFiles' = sentFiles + 1
    /\ UNCHANGED <<fileClosed, dpc, noneSeen, queued_payloads, pushed, driverFrame>>

\* the window is closed: the Sender of the FileToSend channel is dropped
UiDropFileSender ==
    /\ ~fileClosed
    /\ fileClosed' = TRUE
    /\ UNCHANGED <<fileChan, dpc, noneSeen, sentFiles, queued_payloads, pushed, driverFrame>>

\* drain loop, Poll::Ready(Some(event)): push_file(event), loop again
DrainSome ==
    /\ dpc = "drain"
    /\ fileChan # <<>>
    /\ queued_payloads' = push_file(queued_payloads, Head(fileChan))
    /\ pushed' = pushed + 1
    /\ fileChan' = Tail(fileChan)
    /\ UNCHANGED <<fileClosed, dpc, noneSeen, sentFiles, driverFrame>>

\* drain loop, Poll::Ready(None): the channel is closed and empty;
\* "nothing in queue" is printed and the loop goes around again
DrainNone ==
    /\ dpc = "drain"
    /\ fileChan = <<>>
    /\ fileClosed
    /\ noneSeen < MaxNone
    /\ noneSeen' = noneSeen + 1
    /\ UNCHANGED <<fileChan, fileClosed, dpc, sentFiles, queued_payloads, pushed, driverFrame>>

\* drain loop, Poll::Pending: break
DrainPending ==
    /\ dpc = "drain"
    /\ fileChan = <<>>
    /\ ~fileClosed
    /\ dpc' = "swarm"
    /\ UNCHANGED <<fileChan, fileClosed, noneSeen, sentFiles, queued_payloads, pushed, driverFrame>>

\* swarm loop: events are printed until the swarm is Pending, then break
\* and the poll function returns Poll::Pending
SwarmPending ==
    /\ dpc = "swarm"
    /\ dpc' = "parked"
    /\ UNCHANGED <<fileChan, fileClosed, noneSeen, sentFiles, queued_payloads, pushed, driverFrame>>

\* the task is woken (by the channel or by the network) and polled again
Wake ==
    /\ dpc = "parked"
    /\ dpc' = "drain"
    /\ UNCHANGED <<fileChan, fileClosed, noneSeen, sentFiles, queued_payloads, pushed, driverFrame>>

InitDriver ==
    /\ TransferParked
    /\ QueueInit
    /\ WaitInit
    /\ DriverInit
    /\ NameParked
    /\ MoreParked

NextDriver ==
    \/ UiSendFile
    \/ UiDropFileSender
    \/ DrainSome
    \/ DrainNone
    \/ DrainPending
    \/ SwarmPending
    \/ Wake

SpecDriver == InitDriver /\ [][NextDriver]_vars

\* ================================== the target path of a received file
\* /transfer/1.0 read_socket: the name line is trimmed and given to
\* get_target_path, and the file is created at the path returned.

\* longest name line
MaxNameLen == 4

\* characters of a name line: a letter, the path separator, white space
NameChars == {"a", "/", " "}

RECURSIVE NameStrings(_)
NameStrings(n) ==
    IF n = 0 THEN {<<>>}
    ELSE LET S == NameStrings(n - 1)
         IN  S \cup {Append(s, c) : s \in {t \in S : Len(t) = n - 1}, c \in NameChars}

\* str::trim: leading and trailing white space removed
RECURSIVE TrimStart(_)
TrimStart(s) == IF s # <<>> /\ Head(s) = " " THEN TrimStart(Tail(s)) ELSE s
RECURSIVE TrimEnd(_)
TrimEnd(s) ==
    IF s # <<>> /\ s[Len(s)] = " " THEN TrimEnd(SubSeq(s, 1, Len(s) - 1)) ELSE s
trim(s) == TrimEnd(TrimStart(s))

\* the components of a relative path: the pieces between separators,
\* empty pieces dropped
RECURSIVE Split(_, _, _)
Split(s, cur, acc) ==
    IF s = <<>> THEN (IF cur = <<>> THEN acc ELSE Append(acc, cur))
    ELSE IF Head(s) = "/"
         THEN Split(Tail(s), <<>>, IF cur = <<>> THEN acc ELSE Append(acc, cur))
         ELSE Split(Tail(s), Append(cur, Head(s)), acc)
Components(s) == Split(s, <<>>, <<>>)

\* UserDirs::download_dir(), as components
DownloadDir == << <<"D">> >>
\* timestamp.as_secs(), one digit of it
Timestamp == <<"7">>

\* get_target_path(name): download_dir.join(format!("{}_{}", secs, name))
get_target_path(name) == DownloadDir \o Components(Timestamp \o <<"_">> \o name)

\* longest size line
MaxSizeLen == 2

\* characters of a size line: a digit, the signs, white space
SizeChars == {"1", "+", "-", " "}
Digits == {"1"}

RECURSIVE SizeStrings(_)
SizeStrings(n) ==
    IF n = 0 THEN {<<>>}
    ELSE LET S == SizeStrings(n - 1)
         IN  S \cup {Append(s, c) : s \in {t \in S : Len(t) = n - 1}, c \in SizeChars}

\* str::parse::<usize>() is Ok: digits only, behind at most one plus sign
ParsesAsUsize(s) ==
    LET digits == IF s # <<>> /\ Head(s) = "+" THEN Tail(s) ELSE s
    IN  /\ digits # <<>>
        /\ \A i \in 1..Len(digits) : digits[i] \in Digits

nameFrame == <<transferVars, queueVars, waitVars, driverVars, moreVars>>

\* read_socket: read_line, trim, parse, get_target_path
ReadName ==
    /\ npc = "read_name"
    /\ ParsesAsUsize(trim(rawSize))
    /\ usedName' = trim(rawName)
    /\ targetPath' = get_target_path(trim(rawName))
    /\ npc' = "create"
    /\ UNCHANGED <<rawName, rawSize, nameFrame>>

\* read_socket: size_b.trim().parse::<usize>().unwrap() on a size line that
\* is no number panics inside the upgrade, which the task driving the swarm
\* polls
SizeUnwrapPanic ==
    /\ npc = "read_name"
    /\ ~ParsesAsUsize(trim(rawSize))
    /\ npc' = "panicked"
    /\ UNCHANGED <<rawName, rawSize, usedName, targetPath, nameFrame>>

\* AsyncFile::create(&path): the file is created in the directory the
\* path names; a directory below the download directory may or may not
\* exist, and without it create fails
CreateFile ==
    /\ npc = "create"
    /\ \/ npc' = "created"
       \/ /\ Len(targetPath) > Len(DownloadDir) + 1
          /\ npc' = "create_failed"
    /\ UNCHANGED <<rawName, rawSize, usedName, targetPath, nameFrame>>

InitName ==
    /\ TransferParked
    /\ QueueInit
    /\ WaitInit
    /\ DriverInit
    /\ MoreParked
    /\ rawName \in NameStrings(MaxNameLen)
    /\ rawSize \in SizeStrings(MaxSizeLen)
    /\ usedName = <<>>
    /\ targetPath = <<>>
    /\ npc = "read_name"

NextName ==
    \/ ReadName
    \/ SizeUnwrapPanic
    \/ CreateFile

SpecName == InitName /\ [][NextName]_vars

\* ============================================ faults of the substream
\* The Answer is one byte and the echo of the hash (Answer::read returns
\* the byte only).  The echo in flight is changed on the way to the sender.
CorruptEcho ==
    /\ ansWire = "true"
    /\ accepted = "unread"
    /\ tampered < MaxTamper
    /\ ~echoCorrupt
    /\ echoCorrupt' = TRUE
    /\ tampered' = tampered + 1
    /\ UNCHANGED <<senderVars, metaWire, ansWire, wire, wireClosed>>
    /\ UNCHANGED <<readVars, fileVars, recvVars, behVars, cmdVars>>
    /\ UNCHANGED <<queueVars, waitVars, driverVars, nameVars, chanVars, discVars,
                   connVars>>

\* The substream is reset while both hosts are in their payload loops:
\* writer.write_all(..).await? returns the error from write_socket,
\* reader.read gives Err(e) => return Err(e) in read_file_payload.  The
\* bytes in flight are gone, the bytes handed to the writer job stay.
SubstreamReset ==
    /\ spc = "stream"
    /\ rpc = "stream"
    /\ tampered < MaxTamper
    /\ spc' = "err"
    /\ rpc' = "err"
    /\ rerr' = "ConnectionReset"
    /\ wire' = <<>>
    /\ tampered' = tampered + 1
    /\ UNCHANGED <<srcName, srcFile, accepted, offset, scounter, scurrent, uiA>>
    /\ UNCHANGED <<metaWire, ansWire, wireClosed>>
    /\ UNCHANGED <<readVars, fileVars, meta, choice, self, uiB, behVars, cmdVars>>
    /\ UNCHANGED extVars

\* after the loop of write_socket: job.join().or_else(..)? or
\* writer.close().await? returns the error, notify_completed is not reached.
SenderCloseFails ==
    /\ spc = "close"
    /\ tampered < MaxTamper
    /\ spc' = "err"
    /\ tampered' = tampered + 1
    /\ UNCHANGED <<srcName, srcFile, accepted, offset, scounter, scurrent, uiA>>
    /\ UNCHANGED <<metaWire, ansWire, wire, wireClosed>>
    /\ UNCHANGED <<readVars, fileVars, recvVars, behVars, cmdVars>>
    /\ UNCHANGED extVars

NextFault ==
    \/ Next
    \/ CorruptEcho
    \/ SubstreamReset
    \/ SenderCloseFails

SpecFault == Init /\ [][NextFault]_vars

\* ======================================================== scenario S1
\* the file "hi\n" of scenario S1: three bytes
S1File == <<0, 1, 0>>

InitS1 ==
    /\ TransferStart
    /\ srcFile = S1File
    /\ commands \in StaleCommands(MaxStale)
    /\ QueueInit
    /\ WaitInit
    /\ DriverInit
    /\ NameParked
    /\ MoreParked

SpecS1 == InitS1 /\ [][Next]_vars

\* ================================= the bounded channels of start_window
\* bounded(1024 * 24), scaled down
ChanCap == 2

\* Sender::try_send: the value is enqueued if the channel has room
try_send(chan, v) == IF Len(chan) < ChanCap THEN Append(chan, v) ELSE chan

chanFrame == <<transferVars, queueVars, waitVars, driverVars, nameVars, faultVars,
               discVars, connVars>>

\* notify_incoming_file_event: sender_queue.send(event).await waits for room
NotifyIncoming ==
    /\ Len(evChan) < ChanCap
    /\ evChan' = Append(evChan, "FileIncoming")
    /\ UNCHANGED <<cmdChan, sendChan, lost, uiCrashed, chanFrame>>

\* notify_progress: try_send, the error is printed and the transfer goes on
NotifyProgressTry ==
    /\ evChan' = try_send(evChan, "TransferProgress")
    /\ lost' = IF Len(evChan) < ChanCap THEN lost ELSE lost \cup {"TransferProgress"}
    /\ UNCHANGED <<cmdChan, sendChan, uiCrashed, chanFrame>>

\* the UI takes the next event; for FileIncoming the dialog is answered and
\* the result of command_sender.try_send(command) is discarded (let _ =)
UiHandleEvent ==
    /\ ~uiCrashed
    /\ evChan # <<>>
    /\ evChan' = Tail(evChan)
    /\ IF Head(evChan) = "FileIncoming"
       THEN /\ cmdChan' = try_send(cmdChan, "TransferCommand")
            /\ lost' = IF Len(cmdChan) < ChanCap THEN lost
                       ELSE lost \cup {"TransferCommand"}
       ELSE UNCHANGED <<cmdChan, lost>>
    /\ UNCHANGED <<sendChan, uiCrashed, chanFrame>>

\* connect_drag_data_received: sender.try_send(file).expect("Sending failed")
UiDropFile ==
    /\ ~uiCrashed
    /\ sendChan' = try_send(sendChan, "FileToSend")
    /\ uiCrashed' = (Len(sendChan) >= ChanCap)
    /\ UNCHANGED <<evChan, cmdChan, lost, chanFrame>>

\* the network task takes a command (block_for_answer)
NetTakeCommand ==
    /\ cmdChan # <<>>
    /\ cmdChan' = Tail(cmdChan)
    /\ UNCHANGED <<evChan, sendChan, lost, uiCrashed, chanFrame>>

\* the network task takes a file (execute_swarm)
NetTakeFile ==
    /\ sendChan # <<>>
    /\ sendChan' = Tail(sendChan)
    /\ UNCHANGED <<evChan, cmdChan, lost, uiCrashed, chanFrame>>

InitChan ==
    /\ TransferParked
    /\ QueueInit
    /\ WaitInit
    /\ DriverInit
    /\ NameParked
    /\ MoreParked

NextChan ==
    \/ NotifyIncoming
    \/ NotifyProgressTry
    \/ UiHandleEvent
    \/ UiDropFile
    \/ NetTakeCommand
    \/ NetTakeFile

SpecChan == InitChan /\ [][NextChan]_vars

\* ================================================== DiscoveryBehaviour
\* longest queue of DiscoveryBehaviour.events
MaxEvents == 1
\* room for PeersUpdated events in the network -> UI channel
PeersCap == 1

\* addresses a peer is reported at
Addrs == {"a1", "a2"}
\* the Discovery record of a remote host: get_hostname(), get_os()
RemoteHostname == "host"
RemoteOs == "Linux"

\* a Peer of the table
Peer(addr, hostname, os) ==
    [present |-> TRUE, address |-> addr, hostname |-> hostname, os |-> os]

\* NetworkBehaviourAction values
DialPeer(id) == [action |-> "DialPeer", peer_id |-> id]
NotifyHandler(id) == [action |-> "NotifyHandler", peer_id |-> id]
GenerateEvent(id) == [action |-> "GenerateEvent", peer_id |-> id]

\* peers_event: the Peers of the table
peers_event(table) ==
    {[peer_id |-> id, address |-> table[id].address,
      hostname |-> table[id].hostname, os |-> table[id].os] :
        id \in {q \in Peers : table[q].present}}

\* notify_frontend(None): try_send(PeersUpdated(peers_event()))
notify_frontend(chan, table) ==
    IF Len(chan) < PeersCap THEN Append(chan, peers_event(table)) ELSE chan

\* add_peer
add_peer_always_dials(table, queue, peer_id, addr) ==
    [events |-> Append(queue, DialPeer(peer_id)),
     peers |-> IF ~table[peer_id].present
               THEN [table EXCEPT ![peer_id] = Peer(addr, "", "Unknown")]
               ELSE table]
add_peer(table, queue, peer_id, addr) ==
    IF ~table[peer_id].present
    THEN [events |-> Append(queue, DialPeer(peer_id)),
          peers |-> [table EXCEPT ![peer_id] = Peer(addr, "", "Unknown")]]
    ELSE [events |-> queue, peers |-> table]

\* remove_peer: peers.remove, then notify_frontend(None)
remove_peer_notify_first(table, chan, peer_id) ==
    [peers |-> [table EXCEPT ![peer_id] = NoPeer],
     chan |-> notify_frontend(chan, table)]
remove_peer(table, chan, peer_id) ==
    LET removed == [table EXCEPT ![peer_id] = NoPeer]
    IN  [peers |-> removed, chan |-> notify_frontend(chan, removed)]

\* update_peer that also inserts a peer the table does not hold
update_peer_inserts(table, chan, peer_id, hostname, os) ==
    LET updated == IF table[peer_id].present
                   THEN [table EXCEPT ![peer_id].hostname = hostname,
                                      ![peer_id].os = os]
                   ELSE [table EXCEPT ![peer_id] = Peer("", hostname, os)]
    IN  [peers |-> updated, chan |-> notify_frontend(chan, updated)]
\* update_peer that takes the address back to the empty one
update_peer_resets_address(table, chan, peer_id, hostname, os) ==
    LET updated == IF table[peer_id].present
                   THEN [table EXCEPT ![peer_id] = Peer("", hostname, os)]
                   ELSE table
    IN  [peers |-> updated, chan |-> notify_frontend(chan, updated)]
\* update_peer: hostname and os of a known peer, then notify_frontend(None)
update_peer(table, chan, peer_id, hostname, os) ==
    LET updated == IF table[peer_id].present
                   THEN [table EXCEPT ![peer_id].hostname = hostname,
                                      ![peer_id].os = os]
                   ELSE table
    IN  [peers |-> updated, chan |-> notify_frontend(chan, updated)]

discFrame == <<transferVars, queueVars, waitVars, driverVars, nameVars, faultVars,
               chanVars, connVars>>

\* MdnsEvent::Discovered(id, addr): add_peer
MdnsDiscovered(id, addr) ==
    /\ peer_table[id].present \/ Len(disc_events) < MaxEvents
    /\ LET r == add_peer(peer_table, disc_events, id, addr)
       IN  /\ peer_table' = r.peers
           /\ disc_events' = r.events
    /\ lastAddr' = [lastAddr EXCEPT ![id] = addr]
    /\ lastSent' = ""
    /\ gone' = gone \ {id}
    /\ UNCHANGED <<peersChan, exchanges, live, discFrame>>

\* MdnsEvent::Expired(id): remove_peer
MdnsExpired(id) ==
    /\ LET r == remove_peer(peer_table, peersChan, id)
       IN  /\ peer_table' = r.peers
           /\ peersChan' = r.chan
    /\ lastSent' = ""
    /\ UNCHANGED <<disc_events, lastAddr, exchanges, live, gone, discFrame>>

\* inject_connection_established with the Listener arm left empty
InjectConnectionEstablished_dialer_only(id, role, addr) ==
    /\ role = "Listener" \/ Len(disc_events) < MaxEvents
    /\ peer_table' = IF peer_table[id].present /\ role = "Dialer"
                     THEN [peer_table EXCEPT ![id].address = addr]
                     ELSE peer_table
    /\ disc_events' = IF role = "Dialer"
                      THEN Append(disc_events, NotifyHandler(id))
                      ELSE disc_events
    /\ lastAddr' = [lastAddr EXCEPT ![id] = addr]
    /\ lastSent' = ""
    /\ live' = live \cup {id}
    /\ gone' = gone \ {id}
    /\ UNCHANGED <<peersChan, exchanges, discFrame>>

\* inject_connection_established: the address of a known peer becomes the
\* one of the connection; as Dialer the local record is queued for the
\* handler
InjectConnectionEstablished(id, role, addr) ==
    /\ role = "Listener" \/ Len(disc_events) < MaxEvents
    /\ peer_table' = IF peer_table[id].present
                     THEN [peer_table EXCEPT ![id].address = addr]
                     ELSE peer_table
    /\ disc_events' = IF role = "Dialer"
                      THEN Append(disc_events, NotifyHandler(id))
                      ELSE disc_events
    /\ lastAddr' = [lastAddr EXCEPT ![id] = addr]
    /\ lastSent' = ""
    /\ live' = live \cup {id}
    /\ gone' = gone \ {id}
    /\ UNCHANGED <<peersChan, exchanges, discFrame>>

\* inject_disconnected: the body is empty, the table is left as it is
DiscInjectDisconnected(id) ==
    /\ id \in live
    /\ live' = live \ {id}
    /\ gone' = gone \cup {id}
    /\ lastSent' = ""
    /\ UNCHANGED <<peer_table, disc_events, peersChan, lastAddr, exchanges, discFrame>>

\* inject_event(InnerMessage::Received): the record a remote host wrote
\* on its outbound substream
DiscInjectReceived(id) ==
    /\ Len(disc_events) < MaxEvents
    /\ disc_events' = Append(disc_events, GenerateEvent(id))
    /\ lastSent' = ""
    /\ UNCHANGED <<peer_table, peersChan, lastAddr, exchanges, live, gone, discFrame>>

\* inject_event(InnerMessage::Sent): the outbound upgrade has written the
\* local record; its output is (), the behaviour returns
DiscInjectSent(id) ==
    /\ id \in exchanges
    /\ exchanges' = exchanges \ {id}
    /\ lastSent' = id
    /\ UNCHANGED <<peer_table, disc_events, peersChan, lastAddr, live, gone, discFrame>>

\* poll: events.pop_front(); the swarm dials, hands the record to the
\* handler, or gives the DiscoveryEvent to update_peer
DiscPoll ==
    /\ disc_events # <<>>
    /\ disc_events' = Tail(disc_events)
    /\ LET event == Head(disc_events)
       IN  /\ exchanges' = IF event.action = "NotifyHandler"
                           THEN exchanges \cup {event.peer_id}
                           ELSE exchanges
           /\ IF event.action = "GenerateEvent"
              THEN LET r == update_peer(peer_table, peersChan, event.peer_id,
                                        RemoteHostname, RemoteOs)
                   IN  /\ peer_table' = r.peers
                       /\ peersChan' = r.chan
              ELSE UNCHANGED <<peer_table, peersChan>>
    /\ lastSent' = ""
    /\ UNCHANGED <<lastAddr, live, gone, discFrame>>

\* the UI takes a PeersUpdated event
UiTakePeers ==
    /\ peersChan # <<>>
    /\ peersChan' = Tail(peersChan)
    /\ lastSent' = ""
    /\ UNCHANGED <<peer_table, disc_events, lastAddr, exchanges, live, gone, discFrame>>

InitDisc ==
    /\ TransferParked
    /\ QueueInit
    /\ WaitInit
    /\ DriverInit
    /\ NameParked
    /\ MoreParked

NextDisc ==
    \/ \E id \in Peers, addr \in Addrs : MdnsDiscovered(id, addr)
    \/ \E id \in Peers : MdnsExpired(id)
    \/ \E id \in Peers, role \in {"Dialer", "Listener"}, addr \in Addrs :
          InjectConnectionEstablished(id, role, addr)
    \/ \E id \in Peers : DiscInjectReceived(id)
    \/ \E id \in Peers : DiscInjectSent(id)
    \/ DiscPoll
    \/ UiTakePeers

SpecDisc == InitDisc /\ [][NextDisc]_vars

\* the behaviour under mDNS alone: peers are reported and expire, the swarm
\* polls, the UI takes its events, no connection is established
NextMdns ==
    \/ \E id \in Peers, addr \in Addrs : MdnsDiscovered(id, addr)
    \/ \E id \in Peers : MdnsExpired(id)
    \/ DiscPoll
    \/ UiTakePeers

SpecMdns == InitDisc /\ [][NextMdns]_vars

\* the behaviour while peers are reported, expire, connect and disconnect
NextLife ==
    \/ \E id \in Peers, addr \in Addrs : MdnsDiscovered(id, addr)
    \/ \E id \in Peers : MdnsExpired(id)
    \/ \E id \in Peers, role \in {"Dialer", "Listener"}, addr \in Addrs :
          InjectConnectionEstablished(id, role, addr)
    \/ \E id \in Peers : DiscInjectDisconnected(id)
    \/ DiscPoll
    \/ UiTakePeers

SpecLife == InitDisc /\ [][NextLife]_vars

\* the behaviour after mDNS has reported some of the peers: connections
\* are established, remote records arrive, the swarm polls, the UI takes
\* its events
InitExchange ==
    /\ TransferParked
    /\ QueueInit
    /\ WaitInit
    /\ DriverInit
    /\ NameParked
    /\ echoCorrupt = FALSE
    /\ evChan = <<>>
    /\ cmdChan = <<>>
    /\ sendChan = <<>>
    /\ lost = {}
    /\ uiCrashed = FALSE
    /\ peer_table \in [Peers -> {NoPeer} \cup {Peer(a, "", "Unknown") : a \in Addrs}]
    /\ disc_events = <<>>
    /\ peersChan = <<>>
    /\ lastAddr = [p \in Peers |-> IF peer_table[p].present
                                    THEN peer_table[p].address ELSE ""]
    /\ exchanges = {}
    /\ lastSent = ""
    /\ live = {}
    /\ gone = {}
    /\ served = [t \in Waiters |-> 0]

NextExchange ==
    \/ \E id \in Peers, role \in {"Dialer", "Listener"}, addr \in Addrs :
          InjectConnectionEstablished(id, role, addr)
    \/ \E id \in Peers : DiscInjectReceived(id)
    \/ DiscPoll
    \/ UiTakePeers

SpecExchange == InitExchange /\ [][NextExchange]_vars

\* =============================================================== claims
Verified == injected /\ events = <<>>
LastB == uiB[Len(uiB)]
IsProgress(e, dir) == e.type = "TransferProgress" /\ e.direction = dir
Emitted(queue, type) == \E i \in 1..Len(queue) : queue[i].type = type

\* C1: once the command taken while waiting is Accept with the hash of the
\* metadata, the receiver has written Answer(accepted=true) before it has
\* read any payload byte; a transfer that returned Ok has streamed every
\* byte it read into the file it created; and such a transfer always ends
\* with its result handed to the behaviour for verification.
C1_AnswerBeforePayload ==
    (counter > 0 \/ rpc \in {"payload", "stream", "join", "ok"})
        => /\ ansWire = "true"
           /\ choice.kind = "Accept"
           /\ choice.hash = meta.hash
C1_Streamed ==
    rpc = "ok" => /\ created
                  /\ jobDone
                  /\ \A i \in 1..Len(rchan) : rchan[i] = <<>>
                  /\ Len(disk) = counter
                  /\ self = [name |-> meta.name, hash |-> meta.hash, size_bytes |-> counter]
C2_AcceptMismatch ==
    (choice.kind = "Accept" /\ choice.hash # meta.hash)
        => /\ ansWire = "false"
           /\ rpc = "err"
           /\ rerr = "PermissionDenied"
           /\ ~created
           /\ counter = 0
C2_Witness ==
    /\ choice.kind = "Accept"
    /\ choice.hash # meta.hash
    /\ rpc = "err"
    /\ spc = "ok"

\* C3: when the command taken while waiting is Deny, with any hash, the
\* receiver has written Answer(accepted=false), the transfer has failed, no
\* file was created and the only event B's UI has seen is FileIncoming.
C3_Deny ==
    choice.kind = "Deny"
        => /\ ansWire = "false"
           /\ rpc = "err"
           /\ rerr # "none"
           /\ ~created
           /\ ~injected
           /\ uiB = <<FileIncoming(meta.name, meta.hash, meta.size)>>
C3_Witness ==
    /\ choice.kind = "Deny"
    /\ choice.hash = meta.hash
    /\ rpc = "err"
    /\ spc = "ok"

\* C4: the sender has written payload bytes only if the Answer it read was
\* accepted=true; after accepted=false it has written none and is done;
\* whenever it has read an Answer, the metadata was written before.
C4_PayloadAfterAnswer ==
    /\ (scounter > 0 \/ offset > 0 \/ wire # <<>> \/ wireClosed) => accepted = "true"
    /\ accepted = "false" => (scounter = 0 /\ wire = <<>> /\ spc = "ok")
    /\ accepted # "unread" => (metaWire.present /\ spc \notin {"write_meta", "read_answer"})
    /\ spc \in {"write_meta", "read_answer"} => accepted = "unread"
C4_Witness ==
    /\ accepted = "true"
    /\ scounter >= 2
    /\ spc = "ok"

\* C5: after an Answer with accepted=false the sender has emitted
\* TransferRejected and neither TransferProgress nor TransferCompleted.
C5_RejectedEmitted ==
    (accepted = "false" /\ spc = "ok")
        => /\ Emitted(uiA, "TransferRejected")
           /\ ~Emitted(uiA, "TransferProgress")
           /\ ~Emitted(uiA, "TransferCompleted")

C7_OutboundOrder ==
    \A i \in 1..Len(uiA) :
        /\ (i = 1) <=> (uiA[i].type = "WaitingForAnswer")
        /\ (i > 1 /\ i < Len(uiA)) => IsProgress(uiA[i], "Outgoing")
        /\ (i > 1 /\ i = Len(uiA)) =>
               \/ IsProgress(uiA[i], "Outgoing")
               \/ uiA[i].type = "TransferCompleted"
               \/ (i = 2 /\ uiA[i].type = "TransferRejected")

\* C8: in each direction the done field of successive TransferProgress
\* events does not decrease and never exceeds total, and the last
\* TransferProgress before TransferCompleted / FileCorrect has done = total.
ProgressBounded(queue) ==
    \A i \in 1..Len(queue) :
        queue[i].type = "TransferProgress" =>
            /\ queue[i].done <= queue[i].total
            /\ \A j \in 1..(i - 1) :
                 queue[j].type = "TransferProgress" => queue[j].done <= queue[i].done
ProgressComplete(queue, final) ==
    \A i \in 2..Len(queue) :
        queue[i].type = final =>
            /\ queue[i - 1].type = "TransferProgress"
            /\ queue[i - 1].done = queue[i - 1].total
C8_ProgressMonotone ==
    /\ ProgressBounded(uiA)
    /\ ProgressBounded(uiB)
    /\ ProgressComplete(uiA, "TransferCompleted")
    /\ ProgressComplete(uiB, "FileCorrect")

\* C9: verification emits FileCorrect exactly when the hash recomputed over
\* the written file equals the metadata hash, and FileIncorrect otherwise,
\* after which the received file is no longer on disk.
C9_Verify ==
    Verified =>
        /\ (LastB.type = "FileCorrect") <=> (created /\ hash_contents(disk) = meta.hash)
        /\ (LastB.type = "FileIncorrect") <=> ~(created /\ hash_contents(disk) = meta.hash)
        /\ (LastB.type = "FileIncorrect") => ~created

\* C10: whenever the receiver emits FileCorrect, the file it wrote has
\* exactly the bytes of the file that was sent.
C10_RoundTrip ==
    Emitted(uiB, "FileCorrect") => (created /\ disk = srcFile)
C10_Witness ==
    /\ Emitted(uiB, "FileCorrect")
    /\ Len(srcFile) >= 2
    /\ disk = srcFile

\* helpers of the claims on the queue of the behaviour
QueuedNames == {queued_payloads[i].name : i \in 1..Len(queued_payloads)}
DispatchedNames == {dispatched[i].message.name : i \in 1..Len(dispatched)}

\* C11: a queued FileToSend leaves the queue only by being dispatched to
\* the peer named in its own peer field: every NotifyHandler returned by
\* poll is addressed to the peer of the payload it carries.
C11_DispatchToTarget ==
    \A i \in 1..Len(dispatched) : dispatched[i].peer_id = dispatched[i].message.peer

\* C12: a peer has at most one outbound transfer handed to its handler and
\* not yet finished.
C12_OneOutstanding ==
    \A p \in Peers : outstanding[p] <= 1

\* C13: payloads pushed for the same peer are dispatched in the order of
\* their push_file calls (names are numbered in that order).
C13_Fifo ==
    \A i, j \in 1..Len(dispatched) :
        (i < j /\ dispatched[i].message.peer = dispatched[j].message.peer)
            => dispatched[i].message.name < dispatched[j].message.name

\* C14: every pushed FileToSend is either queued or dispatched, never both
\* and never twice: the pushed payloads are exactly the queued ones plus the
\* dispatched ones, each counted once.
C14_Conservation ==
    /\ QueuedNames \cup DispatchedNames = 1..pushed
    /\ QueuedNames \cap DispatchedNames = {}
    /\ Cardinality(QueuedNames) = Len(queued_payloads)
    /\ Cardinality(DispatchedNames) = Len(dispatched)

C14_Witness ==
    /\ pushed = MaxPush
    /\ dispatched # <<>>
    /\ queued_payloads # <<>>

\* C15: a command whose hash matches no waiting transfer has no effect on
\* a later transfer: the command a transfer takes while waiting is one sent
\* for its own metadata hash, never the answer to an earlier prompt left in
\* the channel.
C15_StaleIgnored ==
    choice.kind # "None" => choice.hash = meta.hash

\* C16: with two inbound transfers waiting at the same time, each command
\* is taken by the transfer whose metadata hash equals the hash of the
\* command, whichever of them holds the receiver.
C16_Correlated ==
    \A t \in Waiters : taken[t].kind # "None" => taken[t].hash = WaiterMeta(t).hash

\* C17: once the drain loop has seen the closed FileToSend channel, the
\* network task is finished.
C17_ClosedTerminates ==
    noneSeen > 0 => dpc = "finished"

\* C18: an inbound transfer waiting in block_for_answer always leaves the
\* wait, whether or not a command arrives and whether or not the UI end of
\* the command channel is dropped.
C18_WaitEnds ==
    \A t \in Waiters : (wpc[t] = "blocked") ~> (wpc[t] # "blocked")

\* C19: the name used to build the target path is not empty and holds no
\* path separator, sanitizing it again changes nothing, and the file is
\* created directly inside the download directory.
C19_Sanitized ==
    npc \in {"create", "created", "create_failed"} =>
        /\ usedName # <<>>
        /\ \A i \in 1..Len(usedName) : usedName[i] # "/"
        /\ trim(usedName) = usedName
        /\ Len(targetPath) = Len(DownloadDir) + 1

\* C20: the receiver of an accepted transfer takes no more than size bytes
\* from the stream and writes no more than size bytes to the file.
C20_ExactSize ==
    meta.present => (counter <= meta.size /\ Len(disk) <= meta.size)

\* C21: once the hash echoed in an accepting Answer differs from the hash
\* of the metadata, the sender does not stream: it has either not read the
\* Answer yet or has ended with an error.
C21_EchoChecked == echoCorrupt => spc \in {"read_answer", "err"}

\* C22: a transfer whose substream was reset reports an Error event to the
\* UI of either host, and neither FileCorrect nor TransferCompleted.
C22_AbortReported ==
    rerr = "ConnectionReset"
        => /\ Emitted(uiA, "Error")
           /\ Emitted(uiB, "Error")
           /\ ~Emitted(uiB, "FileCorrect")
           /\ ~Emitted(uiA, "TransferCompleted")

\* C23: a poll that finds the next payload queued for a peer that is known
\* but not connected dials that peer and keeps the payload queued for it.
C23_DialsTarget ==
    [][(/\ Poll
        /\ events = <<>>
        /\ queued_payloads # <<>>
        /\ Last(queued_payloads).peer \in peers \ connected_peers)
            => /\ Last(queued_payloads).peer \in dials'
               /\ queued_payloads' = queued_payloads]_vars

\* C24: the sender of the accepted transfer of scenario S1 has shown its UI
\* exactly WaitingForAnswer, TransferProgress(3,3,Outgoing),
\* TransferCompleted once it has returned.
C24_ScenarioS1 ==
    (spc = "ok" /\ accepted = "true")
        => uiA = <<WaitingForAnswer,
                   TransferProgress(Len(S1File), Len(S1File), "Outgoing"),
                   TransferCompleted>>

\* C25: a metadata record whose size line is no non-negative integer ends
\* the inbound transfer with an error result: the task does not panic and
\* no file is created.
C25_BadSizeIsError ==
    ~ParsesAsUsize(trim(rawSize)) => npc \in {"read_name", "error"}

\* C26: no TransferCommand is lost by a full channel with nothing reported
\* to the UI, and no handler of the UI panics on a full channel.
C26_OverflowSurfaced == "TransferCommand" \notin lost /\ ~uiCrashed

\* C27: once the exchange on a connection the local host dialled has
\* completed (its handler reported Sent), the local host holds the record
\* of the peer: the os of a known peer is no longer the placeholder.
C27_HoldsRecord ==
    \A id \in Peers :
        (lastSent = id /\ peer_table[id].present) => peer_table[id].os # "Unknown"

\* C28: Discovered(id, addr) for an id that is not in the table inserts the
\* peer with that address, an empty hostname and os Unknown and queues one
\* DialPeer for it; for an id in the table it queues nothing.
C28_Discovered ==
    [][\A id \in Peers, addr \in Addrs :
        MdnsDiscovered(id, addr)
            => IF peer_table[id].present
               THEN disc_events' = disc_events
               ELSE /\ peer_table'[id] = Peer(addr, "", "Unknown")
                    /\ disc_events' = Append(disc_events, DialPeer(id))]_vars

C28_Witness ==
    \E id \in Peers :
        /\ peer_table[id].present
        /\ peer_table[id].address # lastAddr[id]
        /\ disc_events = <<DialPeer(id)>>

\* C29 as stated: Expired(id) removes the peer and sends the UI a
\* PeersUpdated with the table after the removal.
C29_ExpiredNotifies ==
    [][\A id \in Peers :
        MdnsExpired(id)
            => /\ ~peer_table'[id].present
               /\ peersChan' = Append(peersChan, peers_event(peer_table'))]_vars

\* C29 amended: Expired(id) removes the peer; the PeersUpdated with the
\* table after the removal is sent if the channel to the UI has room, and
\* otherwise nothing is sent.
C29_ExpiredNotifiesIfRoom ==
    [][\A id \in Peers :
        MdnsExpired(id)
            => /\ ~peer_table'[id].present
               /\ \A q \in Peers \ {id} : peer_table'[q] = peer_table[q]
               /\ IF Len(peersChan) < PeersCap
                  THEN peersChan' = Append(peersChan, peers_event(peer_table'))
                  ELSE peersChan' = peersChan]_vars

C29_Witness ==
    /\ \E id \in Peers : lastAddr[id] # "" /\ ~peer_table[id].present
    /\ peersChan # <<>>
    /\ peersChan[Len(peersChan)] = peers_event(peer_table)
    /\ peers_event(peer_table) # {}

\* C30: the address stored for a peer is the one reported last, by
\* Discovered or by a connection established.
C30_LatestAddress ==
    \A id \in Peers : peer_table[id].present => peer_table[id].address = lastAddr[id]

\* C34: every connected peer of the transfer behaviour is a known peer.
C34_ConnectedKnown == connected_peers \subseteq peers

\* C35: a poll returns a DialPeer only for a peer that is known, not
\* connected, and the target of a queued payload.
C35_DialForPayload ==
    [][dials' # dials
        => \E i \in 1..Len(queued_payloads) :
             /\ queued_payloads[i].peer \in dials' \ dials
             /\ queued_payloads[i].peer \in peers \ connected_peers]_vars

\* C36: the inbound payloads handed to the behaviour are, each once, either
\* pending in events or generated, unchanged; while one is pending no
\* queued payload is dispatched and a poll generates it; Sent adds none.
ReceivedOnce(pending, done) ==
    LET all == pending \o done
    IN  /\ \A i \in 1..Len(all) : all[i] = ReceivedPayload(all[i].name)
        /\ {all[i].name : i \in 1..Len(all)} = 1..Len(all)

C36_ReceivedForwarded ==
    [][/\ ReceivedOnce(events, generated) => ReceivedOnce(events', generated')
       /\ events # <<>> => dispatched' = dispatched
       /\ (events # <<>> /\ Poll)
            => /\ generated' = Append(generated, events[Len(events)])
               /\ events' = SubSeq(events, 1, Len(events) - 1)
       /\ InjectEventSent => (events' = events /\ generated' = generated)
       /\ Len(generated') >= Len(generated)]_vars

C36_Witness ==
    /\ generated # <<>>
    /\ dispatched # <<>>
    /\ ReceivedOnce(events, generated)

\* C38: in read_file_payload the buffers handed to the writer job, joined in
\* the order sent, are the bytes read from the socket, the bytes still in
\* the payloads buffer excepted while the loop runs; after the end of the
\* stream they are all the bytes read, and the empty buffer comes only after
\* every data byte.
RECURSIVE Flat(_)
Flat(bufs) == IF bufs = <<>> THEN <<>> ELSE Head(bufs) \o Flat(Tail(bufs))

C38_BuffersAreStream ==
    created =>
      /\ rpc = "stream" =>
            /\ disk \o Flat(rchan) \o payloads = sockRead
            /\ \A i \in 1..Len(rchan) : rchan[i] # <<>>
            /\ ~jobDone
      /\ rpc \in {"join", "ok"} =>
            /\ disk \o Flat(rchan) = sockRead
            /\ \A i \in 1..Len(rchan) : \A j \in i..Len(rchan) :
                  rchan[i] = <<>> => rchan[j] = <<>>
            /\ Len(sockRead) = counter

C38_Witness ==
    /\ rpc = "ok"
    /\ Len(sockRead) > CHUNK_SIZE * FLUSH_CHUNKS
    /\ disk = sockRead

\* C39: TransferCompleted is on the sender's event queue only when every
\* byte of the file was written, the loop has ended and the writer was
\* closed; when a write, the job or the close failed it is not there.
C39_CompletedAfterClose ==
    /\ Emitted(uiA, "TransferCompleted")
         => /\ spc = "ok"
            /\ accepted = "true"
            /\ offset = Len(srcFile)
            /\ scounter = Len(srcFile)
            /\ wireClosed
            /\ uiA[Len(uiA)] = TransferCompleted
    /\ spc = "err" => ~Emitted(uiA, "TransferCompleted")

C39_Witness ==
    /\ Emitted(uiA, "TransferCompleted")
    /\ srcFile # <<>>
    /\ tampered = 0

\* C33: a peer that was reported disconnected and has not been seen again,
\* by mDNS or by a new connection, is not in the discovery table.
C33_GoneNotInTable == \A id \in gone : ~peer_table[id].present

\* C37: while an inbound upgrade waits for the user's answer, the task of
\* its connection can take the steps of the other substreams.
C37_WaitingDoesNotBlock ==
    \A t \in Waiters :
       (wpc[t] = "blocked" /\ served[t] < MaxServed) => ENABLED ServeSubstream(t)

\* the step in which poll hands the record received from peer id to
\* update_peer
UpdateStep(id) ==
    /\ disc_events # <<>>
    /\ Head(disc_events) = GenerateEvent(id)
    /\ DiscPoll

\* update_peer(id) leaves the address of id, whether id is in the table, and
\* the record of every other peer as they were, and sets hostname and os of
\* a known id
UpdateFrame(id) ==
    /\ peer_table'[id].present = peer_table[id].present
    /\ peer_table'[id].address = peer_table[id].address
    /\ peer_table[id].present
         => (peer_table'[id].hostname = RemoteHostname /\ peer_table'[id].os = RemoteOs)
    /\ \A q \in Peers \ {id} : peer_table'[q] = peer_table[q]

\* C31: update_peer changes only hostname and os of the named peer, and a
\* PeersUpdated event with the updated table is sent to the UI.
C31_UpdateNotifies ==
    [][\A id \in Peers :
          UpdateStep(id)
            => /\ UpdateFrame(id)
               /\ peersChan' = Append(peersChan, peers_event(peer_table'))]_vars

\* C31, amended: update_peer changes only hostname and os of the named
\* peer; the PeersUpdated event with the updated table is sent if the
\* channel to the UI has room and dropped if it is full.
C31_UpdateNotifiesIfRoom ==
    [][\A id \in Peers :
          UpdateStep(id)
            => /\ UpdateFrame(id)
               /\ peersChan' = IF Len(peersChan) < PeersCap
                               THEN Append(peersChan, peers_event(peer_table'))
                               ELSE peersChan]_vars

\* a peer was updated with the channel full: the table holds its hostname,
\* the newest event in the channel does not
C31_Witness ==
    \E id \in Peers :
       /\ peer_table[id].present
       /\ peer_table[id].hostname = RemoteHostname
       /\ peer_table[id].address \in Addrs
       /\ Len(peersChan) = PeersCap
       /\ \E e \in peersChan[Len(peersChan)] : e.peer_id = id /\ e.hostname = ""

\* C32: a connection established as dialer sets a known peer's address to
\* the dialed one and queues one message for the handler of the connection;
\* one established as listener sets the address to the send-back address
\* and queues nothing.
C32_EstablishedSetsAddress ==
    [][\A id \in Peers, addr \in Addrs :
          /\ InjectConnectionEstablished(id, "Dialer", addr)
               => /\ peer_table[id].present
                       => peer_table' = [peer_table EXCEPT ![id].address = addr]
                  /\ disc_events' = Append(disc_events, NotifyHandler(id))
          /\ InjectConnectionEstablished(id, "Listener", addr)
               => /\ peer_table[id].present
                       => peer_table' = [peer_table EXCEPT ![id].address = addr]
                  /\ disc_events' = disc_events]_vars

C32_Witness ==
    \E id \in live \cap exchanges, q \in live \ exchanges :
       /\ peer_table[id].present
       /\ peer_table[id].address = lastAddr[id]
       /\ peer_table[q].present
       /\ peer_table[q].address = lastAddr[q]
       /\ disc_events = <<>>

\* C40: a connection established with, or a record received from, a peer
\* the table does not hold inserts nothing and leaves every record as it
\* was; without add_peer the table gains no entry.
C40_NoInsert ==
    [][/\ \A id \in Peers : peer_table'[id].present => peer_table[id].present
       /\ \A id \in Peers :
            ~peer_table[id].present
              => /\ UpdateStep(id) => peer_table' = peer_table
                 /\ \A role \in {"Dialer", "Listener"}, addr \in Addrs :
                      InjectConnectionEstablished(id, role, addr)
                        => peer_table' = peer_table]_vars

C40_Witness ==
    /\ \E q \in Peers : peer_table[q].present
    /\ \E id \in Peers :
         /\ ~peer_table[id].present
         /\ id \in live
         /\ peersChan # <<>>
         /\ \A q \in Peers \ {id} : peer_table[q].hostname = ""
====
